---- MODULE Spec2Model ----
(***************************************************************************)
(* A model of the kalos compiler core: the syntax tree and type vocabulary *)
(* (ast.rs), the scoped environment (env.rs), the type checker (tyck.rs),  *)
(* the lowerer to LLVM IR (codegen.rs) and the driver (lib.rs).            *)
(*                                                                         *)
(* The checker and the lowerer are recursive tree walks.  Expression       *)
(* checking and lowering are recursive operators; the statement walks are  *)
(* unfolded into steps over an explicit continuation (tstack, cstack), one *)
(* action per statement kind, so that the environment can be observed at   *)
(* every point of the walk.                                                *)
(***************************************************************************)
EXTENDS Integers, Sequences, FiniteSets, TLC

VARIABLES
    program,                \* the KalosProgram handed to run (never changes)
    phase,                  \* position in run: "tyck", "compile", "jit", "done", "failed"
    result,                 \* outcome of run so far
    ti,                     \* tyck_program: index of the next toplevel
    tstack,                 \* tyck_stmt: what remains of the walk
    env,                    \* Tycker.env.tables
    current_fn_return_type, \* Tycker.current_fn_return_type
    ci,                     \* compile_program: index of the next toplevel
    cstack,                 \* compile_stmt: what remains of the walk
    cenv,                   \* LLVMCodeGen.env.tables
    current_fn,             \* LLVMCodeGen.current_fn
    module,                 \* the IR module: the functions added so far
    cursor,                 \* the builder's insertion block
    nextId,                 \* identity of the next IR value built
    last,                   \* history: the step just taken and the state it started from
    unresolved,             \* history: identifiers of accepted expressions that did not resolve
    declared,               \* history: the types Var statements were bound to
    lowered,                \* history: functions whose body has been lowered
    unify_in,               \* the operands of a try_unify call (SpecUnify)
    call_in,                \* the callee binding and arguments of a call (SpecCall)
    builtin_in              \* the operator and operand values of a builtin (SpecBuiltin)

vars == <<program, phase, result, ti, tstack, env, current_fn_return_type,
          ci, cstack, cenv, current_fn, module, cursor, nextId,
          last, unresolved, declared, lowered, unify_in, call_in, builtin_in>>

(***************************************************************************)
(* Option<T>                                                               *)
(***************************************************************************)
None == <<>>
Some(v) == <<v>>

(***************************************************************************)
(* ast.rs: KalosType, KalosSignature                                       *)
(***************************************************************************)
Auto == [k |-> "Auto"]
Unit == [k |-> "Unit"]
Bool == [k |-> "Bool"]
Text == [k |-> "Text"]
Integer(signed, width) == [k |-> "Integer", signed |-> signed, width |-> width]
Int64 == Integer(TRUE, 64)

\* params is a sequence of <<name, type>> pairs
KalosSignature(params, return_type, variadic) ==
    [params |-> params, return_type |-> return_type, variadic |-> variadic]

Function(signature) == [k |-> "Function", signature |-> signature]

(***************************************************************************)
(* ast.rs: KalosError                                                      *)
(***************************************************************************)
NameError == [e |-> "NameError"]
TypeError(expect, found) == [e |-> "TypeError", expect |-> expect, found |-> found]
LvalueError == [e |-> "LvalueError"]
ArgError == [e |-> "ArgError"]

Ok(ty) == [ok |-> TRUE, ty |-> ty]
Err(e) == [ok |-> FALSE, err |-> e]

(***************************************************************************)
(* ast.rs: KalosExpr, KalosStmt, KalosToplevel                             *)
(***************************************************************************)
UnitLiteral == [k |-> "UnitLiteral"]
BoolLiteral(b) == [k |-> "BoolLiteral", bv |-> b]
IntLiteral(n) == [k |-> "IntLiteral", iv |-> n]
StringLiteral == [k |-> "StringLiteral"]
Call(func, args) == [k |-> "Call", func |-> func, args |-> args]
Builtin(builtin, args) == [k |-> "Builtin", builtin |-> builtin, args |-> args]
Identifier(name) == [k |-> "Identifier", name |-> name]

Compound(s) == [k |-> "Compound", s |-> s]
Assignment(lhs, rhs) == [k |-> "Assignment", lhs |-> lhs, rhs |-> rhs]
Var(name, ty, initializer) ==
    [k |-> "Var", name |-> name, ty |-> ty, initializer |-> initializer]
Return(expr) == [k |-> "Return", expr |-> expr]
If(cond, then_part, else_part) ==
    [k |-> "If", cond |-> cond, then_part |-> then_part, else_part |-> else_part]
While(cond, body) == [k |-> "While", cond |-> cond, body |-> body]
Expression(expr) == [k |-> "Expression", expr |-> expr]

Def(name, signature, body) == [name |-> name, signature |-> signature, body |-> body]

ArithmeticBuiltins == {"Add", "Subtract", "Multiply", "Divide", "Modulo", "Power"}
ComparisonBuiltins ==
    {"LessThan", "LessEqual", "Equal", "GreaterEqual", "GreaterThan", "NotEqual"}

(***************************************************************************)
(* ast.rs: KalosType::try_unify.  Equality of types is the derived         *)
(* structural equality; for signatures it compares the parameter list      *)
(* (names and types), the return type and the variadic flag, which is      *)
(* equality of the signature records here.                                 *)
(***************************************************************************)
SignatureEq(a, b) ==
    /\ a.params = b.params
    /\ a.return_type = b.return_type
    /\ a.variadic = b.variadic

TypeEq(a, b) ==
    IF a.k = "Function" /\ b.k = "Function"
    THEN SignatureEq(a.signature, b.signature)
    ELSE a = b

try_unify_symmetric(self, other) ==
    IF self = Auto \/ other = Auto THEN Ok(other)
    ELSE IF TypeEq(self, other) THEN Ok(other)
    ELSE Err(TypeError(self, other))

try_unify(self, other) ==
    IF self = Auto THEN Ok(other)
    ELSE IF TypeEq(self, other) THEN Ok(other)
    ELSE Err(TypeError(self, other))

(***************************************************************************)
(* env.rs: Env<K, V>, a stack of tables; the last element is the top.      *)
(***************************************************************************)
EmptyTable == <<>>

TablePut(table, k, v) ==
    [n \in (DOMAIN table) \cup {k} |-> IF n = k THEN v ELSE table[n]]

\* collect() of (name, value) pairs into a HashMap: a later pair replaces an earlier one
RECURSIVE Collect(_)
Collect(pairs) ==
    IF pairs = <<>> THEN EmptyTable
    ELSE LET n == Len(pairs)
         IN  TablePut(Collect(SubSeq(pairs, 1, n - 1)), pairs[n][1], pairs[n][2])

push_empty(tables) == Append(tables, EmptyTable)

push(tables, table) == Append(tables, table)

pop(tables) == SubSeq(tables, 1, Len(tables) - 1)

put(tables, k, v) == [tables EXCEPT ![Len(tables)] = TablePut(tables[Len(tables)], k, v)]

\* tables.iter().rev().find_map(|t| t.get(k))
RECURSIVE FindFrom(_, _, _)
FindFrom(tables, i, k) ==
    IF i = 0 THEN None
    ELSE IF k \in DOMAIN tables[i] THEN Some(tables[i][k])
    ELSE FindFrom(tables, i - 1, k)

RECURSIVE FindUp(_, _, _)
FindUp(tables, i, k) ==
    IF i > Len(tables) THEN None
    ELSE IF k \in DOMAIN tables[i] THEN Some(tables[i][k])
    ELSE FindUp(tables, i + 1, k)

get_bottom_first(tables, k) == FindUp(tables, 1, k)

get(tables, k) == FindFrom(tables, Len(tables), k)

(***************************************************************************)
(* tyck.rs: Tycker::tyck_expr and tyck_builtin                             *)
(***************************************************************************)
arity_ok_no_variadic(signature, nargs) == nargs = Len(signature.params)

arity_ok(signature, nargs) ==
    LET n == Len(signature.params)
    IN  nargs = n \/ (signature.variadic /\ nargs > n)

Min(a, b) == IF a < b THEN a ELSE b

RECURSIVE tyck_expr(_, _)
RECURSIVE tyck_args(_, _, _, _)

\* signature.params.iter().zip(args).try_for_each(..): from pair i on, the first
\* failure (of checking the argument or of unifying it with the parameter)
tyck_args(tables, signature, args, i) ==
    IF i > Min(Len(signature.params), Len(args)) THEN Ok(signature.return_type)
    ELSE LET arg_type == tyck_expr(tables, args[i])
         IN  IF ~arg_type.ok THEN arg_type
             ELSE LET u == try_unify(signature.params[i][2], arg_type.ty)
                  IN  IF ~u.ok THEN u
                      ELSE tyck_args(tables, signature, args, i + 1)

tyck_builtin(tables, builtin, args) ==
    LET lhs == tyck_expr(tables, args[1])
    IN  IF ~lhs.ok THEN lhs
        ELSE LET rhs == tyck_expr(tables, args[2])
             IN  IF ~rhs.ok THEN rhs
                 ELSE IF builtin \in ArithmeticBuiltins THEN Ok(lhs.ty)
                 ELSE Ok(Bool)

tyck_expr(tables, expr) ==
    CASE expr.k = "UnitLiteral" -> Ok(Unit)
      [] expr.k = "IntLiteral" -> Ok(Int64)
      [] expr.k = "BoolLiteral" -> Ok(Bool)
      [] expr.k = "StringLiteral" -> Ok(Text)
      [] expr.k = "Call" ->
            LET ty == tyck_expr(tables, expr.func)
            IN  IF ~ty.ok THEN ty
                ELSE IF ty.ty.k = "Function"
                THEN IF arity_ok(ty.ty.signature, Len(expr.args))
                     THEN tyck_args(tables, ty.ty.signature, expr.args, 1)
                     ELSE Err(ArgError)
                ELSE Err(TypeError(Auto, ty.ty))
      [] expr.k = "Builtin" -> tyck_builtin(tables, expr.builtin, expr.args)
      [] expr.k = "Identifier" ->
            LET v == get(tables, expr.name)
            IN  IF v = None THEN Err(NameError) ELSE Ok(v[1])

(***************************************************************************)
(* The identifiers occurring anywhere in an expression (ast.rs: KalosExpr) *)
(***************************************************************************)
RECURSIVE Idents(_)
Idents(expr) ==
    CASE expr.k = "Identifier" -> {expr.name}
      [] expr.k = "Call" ->
            Idents(expr.func) \cup UNION {Idents(expr.args[i]) : i \in DOMAIN expr.args}
      [] expr.k = "Builtin" -> UNION {Idents(expr.args[i]) : i \in DOMAIN expr.args}
      [] OTHER -> {}

Unresolved(tables, expr) == {n \in Idents(expr) : get(tables, n) = None}

(***************************************************************************)
(* The walks' continuations.  A "stmt" task is a pending tyck_stmt or      *)
(* compile_stmt call; "pop" is the env.pop() that ends a Compound (entry   *)
(* is history: the tables when the Compound was entered); "end" is the     *)
(* rest of tyck_toplevel or compile_toplevel after the body.               *)
(***************************************************************************)
StmtTask(s) == [t |-> "stmt", s |-> s]
PopTask(entry) == [t |-> "pop", entry |-> entry]
EndTask == [t |-> "end"]

RECURSIVE StmtTasks(_)
StmtTasks(ss) ==
    IF ss = <<>> THEN <<>> ELSE <<StmtTask(Head(ss))>> \o StmtTasks(Tail(ss))

NoStmt == [k |-> "None"]
Step(act, s) ==
    [act |-> act, s |-> s, env |-> env, cenv |-> cenv, cursor |-> cursor, nextId |-> nextId]

Running == [st |-> "running"]
Finished == [st |-> "ok"]
Failed(stage, e) == [st |-> "error", stage |-> stage, err |-> e]
Panicked(stage, what) == [st |-> "panic", stage |-> stage, what |-> what]

codegen_vars == <<ci, cstack, cenv, current_fn, module, cursor, nextId, lowered>>
tycker_vars == <<ti, tstack, env, current_fn_return_type, unresolved, declared>>
input_vars == <<program, unify_in, call_in, builtin_in>>

(***************************************************************************)
(* tyck.rs: Tycker::tyck_program, tyck_toplevel, tyck_stmt                 *)
(***************************************************************************)
TyckTop(kind) ==
    /\ phase = "tyck"
    /\ tstack # <<>>
    /\ Head(tstack).t = "stmt"
    /\ Head(tstack).s.k = kind

TyckContinue(tasks) ==
    /\ tstack' = tasks \o Tail(tstack)
    /\ UNCHANGED <<phase, result>>

TyckFailIgnored(e) == TyckContinue(<<>>)

\* an Err leaves tyck_program through every enclosing `?`: nothing is popped
TyckFail(e) ==
    /\ phase' = "failed"
    /\ result' = Failed("tyck", e)
    /\ tstack' = <<>>

\* self.current_fn_return_type = Some(*signature.return_type.to_owned())
enter_fn_once(current, signature) ==
    IF current = None THEN Some(signature.return_type) ELSE current

enter_fn(current, signature) == Some(signature.return_type)

tyck_toplevel ==
    /\ phase = "tyck"
    /\ tstack = <<>>
    /\ ti <= Len(program)
    /\ LET d == program[ti]
           globals == put(env, d.name, Function(d.signature))
       IN  IF d.body # None
           THEN /\ env' = push(globals, Collect(d.signature.params))
                /\ current_fn_return_type' = enter_fn(current_fn_return_type, d.signature)
                /\ tstack' = <<StmtTask(d.body[1]), EndTask>>
           ELSE /\ env' = globals
                /\ UNCHANGED <<current_fn_return_type, tstack>>
    /\ ti' = ti + 1
    /\ last' = Step("tyck_toplevel", NoStmt)
    /\ UNCHANGED <<phase, result, unresolved, declared, codegen_vars, input_vars>>

tyck_toplevel_end ==
    /\ phase = "tyck"
    /\ tstack # <<>>
    /\ Head(tstack).t = "end"
    /\ env' = pop(env)
    /\ tstack' = Tail(tstack)
    /\ last' = Step("tyck_toplevel_end", NoStmt)
    /\ UNCHANGED <<phase, result, ti, current_fn_return_type, unresolved, declared,
                   codegen_vars, input_vars>>

tyck_Compound ==
    /\ TyckTop("Compound")
    /\ LET s == Head(tstack).s
       IN  /\ env' = push_empty(env)
           /\ TyckContinue(StmtTasks(s.s) \o <<PopTask(env)>>)
           /\ last' = Step("tyck_Compound", s)
    /\ UNCHANGED <<ti, current_fn_return_type, unresolved, declared,
                   codegen_vars, input_vars>>

tyck_Compound_pop ==
    /\ phase = "tyck"
    /\ tstack # <<>>
    /\ Head(tstack).t = "pop"
    /\ env' = pop(env)
    /\ tstack' = Tail(tstack)
    \* history: this step records the tables at the Compound's entry
    /\ last' = [Step("tyck_Compound_pop", NoStmt) EXCEPT !.env = Head(tstack).entry]
    /\ UNCHANGED <<phase, result, ti, current_fn_return_type, unresolved, declared,
                   codegen_vars, input_vars>>

tyck_Assignment ==
    /\ TyckTop("Assignment")
    /\ LET s == Head(tstack).s
           lhs_type == tyck_expr(env, s.lhs)
           rhs_type == tyck_expr(env, s.rhs)
           u == try_unify(lhs_type.ty, rhs_type.ty)
       IN  /\ IF ~lhs_type.ok THEN TyckFail(lhs_type.err) /\ UNCHANGED unresolved
              ELSE IF ~rhs_type.ok THEN TyckFail(rhs_type.err) /\ UNCHANGED unresolved
              ELSE IF ~u.ok THEN TyckFail(u.err) /\ UNCHANGED unresolved
              ELSE /\ TyckContinue(<<>>)
                   /\ unresolved' = unresolved \cup Unresolved(env, s.lhs)
                                               \cup Unresolved(env, s.rhs)
           /\ last' = Step("tyck_Assignment", s)
    /\ UNCHANGED <<ti, env, current_fn_return_type, declared, codegen_vars, input_vars>>

\* the type a Var statement binds its name to, or the error that prevents the binding
var_type_keeps_annotation(tables, s) ==
    IF s.initializer # None
    THEN LET init_ty == tyck_expr(tables, s.initializer[1])
         IN  IF ~init_ty.ok THEN init_ty
             ELSE IF s.ty = Auto THEN Ok(init_ty.ty) ELSE Ok(s.ty)
    ELSE Ok(s.ty)

var_type(tables, s) ==
    IF s.initializer # None
    THEN LET init_ty == tyck_expr(tables, s.initializer[1])
         IN  IF ~init_ty.ok THEN init_ty
             ELSE LET u == try_unify(s.ty, init_ty.ty)
                  IN  IF ~u.ok THEN u
                      ELSE IF u.ty = init_ty.ty THEN Ok(init_ty.ty) ELSE Ok(s.ty)
    ELSE Ok(s.ty)

tyck_Var ==
    /\ TyckTop("Var")
    /\ LET s == Head(tstack).s
           ty == var_type(env, s)
       IN  /\ IF ~ty.ok
              THEN TyckFail(ty.err) /\ UNCHANGED <<env, unresolved, declared>>
              ELSE /\ env' = put(env, s.name, ty.ty)
                   /\ declared' = declared \cup {ty.ty}
                   /\ unresolved' = unresolved \cup
                         (IF s.initializer # None
                          THEN Unresolved(env, s.initializer[1]) ELSE {})
                   /\ TyckContinue(<<>>)
           /\ last' = Step("tyck_Var", s)
    /\ UNCHANGED <<ti, current_fn_return_type, codegen_vars, input_vars>>

tyck_Return ==
    /\ TyckTop("Return")
    /\ LET s == Head(tstack).s
           ty == tyck_expr(env, s.expr)
           u == try_unify(current_fn_return_type[1], ty.ty)
       IN  /\ IF ~ty.ok THEN TyckFail(ty.err) /\ UNCHANGED unresolved
              ELSE IF ~u.ok THEN TyckFail(u.err) /\ UNCHANGED unresolved
              ELSE /\ TyckContinue(<<>>)
                   /\ unresolved' = unresolved \cup Unresolved(env, s.expr)
           /\ last' = Step("tyck_Return", s)
    /\ UNCHANGED <<ti, env, current_fn_return_type, declared, codegen_vars, input_vars>>

\* Bool.try_unify(&self.tyck_expr(cond)?)?
tyck_cond_any(tables, cond) == tyck_expr(tables, cond)

tyck_cond(tables, cond) ==
    LET ty == tyck_expr(tables, cond)
    IN  IF ~ty.ok THEN ty ELSE try_unify(Bool, ty.ty)

tyck_If ==
    /\ TyckTop("If")
    /\ LET s == Head(tstack).s
           c == tyck_cond(env, s.cond)
       IN  /\ IF ~c.ok THEN TyckFail(c.err) /\ UNCHANGED unresolved
              ELSE /\ TyckContinue(<<StmtTask(s.then_part)>> \o StmtTasks(s.else_part))
                   /\ unresolved' = unresolved \cup Unresolved(env, s.cond)
           /\ last' = Step("tyck_If", s)
    /\ UNCHANGED <<ti, env, current_fn_return_type, declared, codegen_vars, input_vars>>

tyck_While ==
    /\ TyckTop("While")
    /\ LET s == Head(tstack).s
           c == tyck_cond(env, s.cond)
       IN  /\ IF ~c.ok THEN TyckFail(c.err) /\ UNCHANGED unresolved
              ELSE /\ TyckContinue(<<StmtTask(s.body)>>)
                   /\ unresolved' = unresolved \cup Unresolved(env, s.cond)
           /\ last' = Step("tyck_While", s)
    /\ UNCHANGED <<ti, env, current_fn_return_type, declared, codegen_vars, input_vars>>

tyck_Expression ==
    /\ TyckTop("Expression")
    /\ LET s == Head(tstack).s
           ty == tyck_expr(env, s.expr)
       IN  /\ IF ~ty.ok THEN TyckFail(ty.err) /\ UNCHANGED unresolved
              ELSE /\ TyckContinue(<<>>)
                   /\ unresolved' = unresolved \cup Unresolved(env, s.expr)
           /\ last' = Step("tyck_Expression", s)
    /\ UNCHANGED <<ti, env, current_fn_return_type, declared, codegen_vars, input_vars>>

\* lib.rs run: tyck_program returned Ok; the code generator is created next
tyck_program_ok ==
    /\ phase = "tyck"
    /\ tstack = <<>>
    /\ ti > Len(program)
    /\ phase' = "compile"
    /\ last' = Step("tyck_program_ok", NoStmt)
    /\ UNCHANGED <<result, tycker_vars, codegen_vars, input_vars>>

(***************************************************************************)
(* codegen.rs: the IR the lowerer builds through inkwell.                  *)
(*                                                                         *)
(* An IR type is void, an integer type of some width, or a function type.  *)
(* An IR value (AnyValueEnum) is an integer constant, the integer result   *)
(* of an instruction, a function parameter, a pointer to a stack slot or a *)
(* function.  id is the identity of the instruction that built the value.  *)
(* The builder appends instructions as built (no folding is modelled) and  *)
(* the function passes run after verification are not modelled.            *)
(***************************************************************************)
VoidType == [t |-> "void"]
IntType(bits) == [t |-> "int", bits |-> bits]
FnType(params, ret, variadic) ==
    [t |-> "fn", params |-> params, ret |-> ret, variadic |-> variadic]

ConstInt(bits, n) == [vk |-> "const", bits |-> bits, n |-> n]
Reg(bits, id) == [vk |-> "reg", bits |-> bits, id |-> id]
ParamValue(func, idx, bits) == [vk |-> "param", func |-> func, idx |-> idx, bits |-> bits]
PointerValue(id) == [vk |-> "ptr", id |-> id]
FunctionValue(func, name, fty) == [vk |-> "fn", func |-> func, name |-> name, fty |-> fty]

is_int_value(v) == v.vk \in {"const", "reg", "param"}
is_pointer_value(v) == v.vk = "ptr"
is_function_value(v) == v.vk = "fn"
\* BasicValueEnum::try_from(AnyValueEnum)
is_basic_value(v) == is_int_value(v) \/ is_pointer_value(v)

Alloca(id, name) == [op |-> "alloca", id |-> id, name |-> name, ty |-> IntType(64)]
Store(ptr, val) == [op |-> "store", ptr |-> ptr, val |-> val]
Load(id, ptr) == [op |-> "load", id |-> id, ptr |-> ptr]
CallInst(id, func, args) == [op |-> "call", id |-> id, func |-> func, args |-> args]
BinInst(id, inst, lhs, rhs) ==
    [op |-> "bin", id |-> id, inst |-> inst, lhs |-> lhs, rhs |-> rhs]
Ret(val) == [op |-> "ret", val |-> val]
Br(target) == [op |-> "br", target |-> target]
CondBr(cond, then_block, else_block) ==
    [op |-> "condbr", cond |-> cond, then_block |-> then_block, else_block |-> else_block]

IsTerminator(i) == i.op \in {"ret", "br", "condbr"}

TypeOk(ty) == [ok |-> TRUE, ty |-> ty]
TypePanic(what) == [ok |-> FALSE, what |-> what]

RECURSIVE compile_type(_)
RECURSIVE compile_params(_, _)

\* signature.params ... .map(|(_, ty)| self.compile_type(ty).try_into().unwrap())
compile_params(params, i) ==
    IF i > Len(params) THEN TypeOk(<<>>)
    ELSE LET ty == compile_type(params[i][2])
         IN  IF ~ty.ok THEN ty
             ELSE IF ty.ty.t # "int" THEN TypePanic("unwrap: not a BasicTypeEnum")
             ELSE LET rest == compile_params(params, i + 1)
                  IN  IF ~rest.ok THEN rest ELSE TypeOk(<<ty.ty>> \o rest.ty)

compile_signature(signature) ==
    LET return_type == compile_type(signature.return_type)
    IN  IF ~return_type.ok THEN return_type
        ELSE LET args == compile_params(signature.params, 1)
             IN  IF ~args.ok THEN args
                 ELSE IF return_type.ty.t = "fn"
                 THEN TypePanic("unwrap: not a BasicTypeEnum")
                 ELSE TypeOk(FnType(args.ty, return_type.ty, signature.variadic))

compile_type(ty) ==
    CASE ty.k = "Auto" -> TypePanic("unreachable")
      [] ty.k = "Unit" -> TypeOk(VoidType)
      [] ty.k = "Bool" -> TypeOk(IntType(1))
      [] ty.k = "Integer" -> TypeOk(IntType(64))
      [] ty.k = "Text" -> TypePanic("unimplemented")
      [] ty.k = "Function" -> compile_signature(ty.signature)

(***************************************************************************)
(* codegen.rs: compile_lvalue, compile_builtin, compile_expr.  The result  *)
(* carries the instructions built (also those built before an error), and  *)
(* the identity counter after them.                                        *)
(***************************************************************************)
ValOk(val, code, next) == [st |-> "ok", val |-> val, code |-> code, next |-> next]
ValErr(e, code, next) == [st |-> "err", err |-> e, code |-> code, next |-> next]
ValPanic(what, code, next) == [st |-> "panic", what |-> what, code |-> code, next |-> next]

\* a failed sub-expression's outcome, after the instructions already built
After(code, r) == [r EXCEPT !.code = code \o r.code]

compile_lvalue(tables, expr) ==
    IF expr.k = "Identifier"
    THEN LET v == get(tables, expr.name)
         IN  IF v = None THEN ValErr(NameError, <<>>, 0)
             ELSE IF ~is_pointer_value(v[1]) THEN ValPanic("into_pointer_value", <<>>, 0)
             ELSE ValOk(v[1], <<>>, 0)
    ELSE ValErr(LvalueError, <<>>, 0)

\* the instruction the builder is asked for: build_int_add, build_int_sub,
\* build_int_mul, build_int_signed_div, build_int_signed_rem and
\* build_int_compare with its IntPredicate
build_int_unsigned(builtin) ==
    CASE builtin = "Add" -> "add"
      [] builtin = "Subtract" -> "sub"
      [] builtin = "Multiply" -> "mul"
      [] builtin = "Divide" -> "udiv"
      [] builtin = "Modulo" -> "urem"
      [] builtin = "LessThan" -> "icmp ult"
      [] builtin = "LessEqual" -> "icmp ule"
      [] builtin = "Equal" -> "icmp eq"
      [] builtin = "GreaterEqual" -> "icmp uge"
      [] builtin = "GreaterThan" -> "icmp ugt"
      [] builtin = "NotEqual" -> "icmp ne"

build_int(builtin) ==
    CASE builtin = "Add" -> "add"
      [] builtin = "Subtract" -> "sub"
      [] builtin = "Multiply" -> "mul"
      [] builtin = "Divide" -> "sdiv"
      [] builtin = "Modulo" -> "srem"
      [] builtin = "LessThan" -> "icmp slt"
      [] builtin = "LessEqual" -> "icmp sle"
      [] builtin = "Equal" -> "icmp eq"
      [] builtin = "GreaterEqual" -> "icmp sge"
      [] builtin = "GreaterThan" -> "icmp sgt"
      [] builtin = "NotEqual" -> "icmp ne"

BuiltinBits(builtin, lhs) == IF builtin \in ComparisonBuiltins THEN 1 ELSE lhs.bits

RECURSIVE compile_expr(_, _, _)
RECURSIVE compile_args(_, _, _, _)

\* args.iter().map(|e| self.compile_expr(e).map(|v| v.try_into().unwrap())).collect()
\* val is the sequence of argument values
compile_args_right_to_left(tables, id, args, i) ==
    IF i > Len(args) THEN ValOk(<<>>, <<>>, id)
    ELSE LET rest == compile_args(tables, id, args, i + 1)
         IN  IF rest.st # "ok" THEN rest
             ELSE LET a == compile_expr(tables, rest.next, args[i])
                  IN  IF a.st # "ok" THEN After(rest.code, a)
                      ELSE IF ~is_basic_value(a.val)
                      THEN ValPanic("unwrap: not a BasicValueEnum",
                                    rest.code \o a.code, a.next)
                      ELSE ValOk(<<a.val>> \o rest.val, rest.code \o a.code, a.next)

compile_args(tables, id, args, i) ==
    IF i > Len(args) THEN ValOk(<<>>, <<>>, id)
    ELSE LET a == compile_expr(tables, id, args[i])
         IN  IF a.st # "ok" THEN a
             ELSE IF ~is_basic_value(a.val)
             THEN ValPanic("unwrap: not a BasicValueEnum", a.code, a.next)
             ELSE LET rest == compile_args(tables, a.next, args, i + 1)
                  IN  IF rest.st # "ok" THEN After(a.code, rest)
                      ELSE ValOk(<<a.val>> \o rest.val, a.code \o rest.code, rest.next)

compile_builtin(tables, id, builtin, args) ==
    LET lhs == compile_expr(tables, id, args[1])
    IN  IF lhs.st # "ok" THEN lhs
        ELSE IF ~is_int_value(lhs.val) THEN ValPanic("into_int_value", lhs.code, lhs.next)
        ELSE LET rhs == compile_expr(tables, lhs.next, args[2])
             IN  IF rhs.st # "ok" THEN After(lhs.code, rhs)
                 ELSE IF ~is_int_value(rhs.val)
                 THEN ValPanic("into_int_value", lhs.code \o rhs.code, rhs.next)
                 ELSE IF builtin = "Power"
                 THEN ValPanic("unimplemented", lhs.code \o rhs.code, rhs.next)
                 ELSE ValOk(Reg(BuiltinBits(builtin, lhs.val), rhs.next),
                            lhs.code \o rhs.code \o
                                <<BinInst(rhs.next, build_int(builtin), lhs.val, rhs.val)>>,
                            rhs.next + 1)

compile_expr(tables, id, expr) ==
    CASE expr.k = "UnitLiteral" -> ValPanic("unreachable", <<>>, id)
      [] expr.k = "IntLiteral" -> ValOk(ConstInt(64, expr.iv), <<>>, id)
      [] expr.k = "BoolLiteral" -> ValOk(ConstInt(1, IF expr.bv THEN 1 ELSE 0), <<>>, id)
      [] expr.k = "StringLiteral" -> ValPanic("todo", <<>>, id)
      [] expr.k = "Call" ->
            LET func == compile_expr(tables, id, expr.func)
            IN  IF func.st # "ok" THEN func
                ELSE IF ~is_function_value(func.val)
                THEN ValPanic("into_function_value", func.code, func.next)
                ELSE LET args == compile_args(tables, func.next, expr.args, 1)
                     IN  IF args.st # "ok" THEN After(func.code, args)
                         ELSE ValOk(IF func.val.fty.ret.t = "void"
                                    THEN ConstInt(64, 0)
                                    ELSE Reg(func.val.fty.ret.bits, args.next),
                                    func.code \o args.code \o
                                        <<CallInst(args.next, func.val, args.val)>>,
                                    args.next + 1)
      [] expr.k = "Builtin" -> compile_builtin(tables, id, expr.builtin, expr.args)
      [] expr.k = "Identifier" ->
            LET var == get(tables, expr.name)
            IN  IF var = None THEN ValErr(NameError, <<>>, id)
                ELSE IF is_pointer_value(var[1])
                THEN ValOk(Reg(64, id), <<Load(id, var[1])>>, id + 1)
                ELSE ValOk(var[1], <<>>, id)

(***************************************************************************)
(* The module is the sequence of functions added; a function has its name, *)
(* its type and its basic blocks, each the sequence of its instructions.   *)
(* The cursor is the block the builder is positioned at the end of.        *)
(***************************************************************************)
IRFunction(name, fty, blocks) == [name |-> name, fty |-> fty, blocks |-> blocks]
NoCursor == [func |-> 0, blk |-> 0]
Cursor(func, blk) == [func |-> func, blk |-> blk]

\* builder.build_*: append at the insertion point
Emit(mod, cur, code) == [mod EXCEPT ![cur.func].blocks[cur.blk] = @ \o code]

\* new_block: context.append_basic_block(self.current_fn.unwrap(), "")
new_blocks(mod, func, n) ==
    [mod EXCEPT ![func].blocks = @ \o [i \in 1..n |-> <<>>]]

IfElseTask(else_part, else_block, cont_block) ==
    [t |-> "if_else", else_part |-> else_part, else_block |-> else_block,
     cont_block |-> cont_block]
IfEndTask(cont_block) == [t |-> "if_end", cont_block |-> cont_block]
WhileEndTask(cond, loop_block, cont_block) ==
    [t |-> "while_end", cond |-> cond, loop_block |-> loop_block,
     cont_block |-> cont_block]
FuncEndTask(func) == [t |-> "end", func |-> func]

(***************************************************************************)
(* func.verify(true): the verifier's rules on terminators (a block ends    *)
(* with its only terminator) and on operand types.  Dominance of uses is   *)
(* not modelled.                                                           *)
(***************************************************************************)
BlockTerminated(b) ==
    /\ b # <<>>
    /\ IsTerminator(b[Len(b)])
    /\ \A i \in 1..(Len(b) - 1) : ~IsTerminator(b[i])

ValueType(v) ==
    CASE is_int_value(v) -> IntType(v.bits)
      [] is_pointer_value(v) -> [t |-> "ptr"]
      [] OTHER -> v.fty

InstWellTyped(f, i) ==
    CASE i.op = "ret" ->
            IF i.val = None THEN f.fty.ret = VoidType
            ELSE ValueType(i.val[1]) = f.fty.ret
      [] i.op = "store" -> ValueType(i.val) = IntType(64)
      [] i.op = "condbr" -> ValueType(i.cond) = IntType(1)
      [] i.op = "bin" -> ValueType(i.lhs) = ValueType(i.rhs)
      [] i.op = "call" ->
            LET fty == i.func.fty
            IN  /\ \/ Len(i.args) = Len(fty.params)
                   \/ fty.variadic /\ Len(i.args) > Len(fty.params)
                /\ \A k \in 1..Len(fty.params) : ValueType(i.args[k]) = fty.params[k]
      [] OTHER -> TRUE

verify(f) ==
    \A b \in 1..Len(f.blocks) :
        /\ BlockTerminated(f.blocks[b])
        /\ \A i \in 1..Len(f.blocks[b]) : InstWellTyped(f, f.blocks[b][i])

(***************************************************************************)
(* codegen.rs: compile_program, compile_toplevel, compile_stmt             *)
(***************************************************************************)
CompileTop(kind) ==
    /\ phase = "compile"
    /\ cstack # <<>>
    /\ Head(cstack).t = "stmt"
    /\ Head(cstack).s.k = kind

CompileFail(e) ==
    /\ phase' = "failed"
    /\ result' = Failed("compile", e)
    /\ cstack' = <<>>

CompilePanic(what) ==
    /\ phase' = "failed"
    /\ result' = Panicked("compile", what)
    /\ cstack' = <<>>

CompileContinue(tasks) ==
    /\ cstack' = tasks \o Tail(cstack)
    /\ UNCHANGED <<phase, result>>

\* the outcome of a failed compile_expr: the instructions it built stay in the block
CompileAbort(r) ==
    /\ IF r.st = "err" THEN CompileFail(r.err) ELSE CompilePanic(r.what)
    /\ module' = Emit(module, cursor, r.code)
    /\ nextId' = r.next

\* signature.params.iter().zip(func.get_param_iter()).map(..).collect()
ParamTable(func, signature, fty) ==
    Collect([i \in 1..Len(signature.params) |->
                <<signature.params[i][1], ParamValue(func, i, fty.params[i].bits)>>])

compile_toplevel ==
    /\ phase = "compile"
    /\ cstack = <<>>
    /\ ci <= Len(program)
    /\ LET d == program[ci]
           fn_type == compile_signature(d.signature)
           func == Len(module) + 1
           globals == put(cenv, d.name, FunctionValue(func, d.name, fn_type.ty))
       IN  IF ~fn_type.ok
           THEN /\ CompilePanic(fn_type.what)
                /\ UNCHANGED <<ci, cenv, current_fn, module, cursor>>
           ELSE /\ ci' = ci + 1
                /\ UNCHANGED <<phase, result>>
                /\ IF d.body # None
                   THEN /\ module' = Append(module, IRFunction(d.name, fn_type.ty, << <<>> >>))
                        /\ cenv' = push(globals, ParamTable(func, d.signature, fn_type.ty))
                        /\ cursor' = Cursor(func, 1)
                        /\ current_fn' = Some(func)
                        /\ cstack' = <<StmtTask(d.body[1]), FuncEndTask(func)>>
                   ELSE /\ module' = Append(module, IRFunction(d.name, fn_type.ty, <<>>))
                        /\ cenv' = globals
                        /\ UNCHANGED <<cursor, current_fn, cstack>>
    /\ last' = Step("compile_toplevel", NoStmt)
    /\ UNCHANGED <<nextId, lowered, tycker_vars, input_vars>>

\* after compile_stmt(body)?: current_fn = None; assert!(func.verify(true)); env.pop()
compile_toplevel_end ==
    /\ phase = "compile"
    /\ cstack # <<>>
    /\ Head(cstack).t = "end"
    /\ LET func == Head(cstack).func
       IN  /\ current_fn' = None
           /\ lowered' = lowered \cup {func}
           /\ IF verify(module[func])
              THEN /\ cenv' = pop(cenv)
                   /\ CompileContinue(<<>>)
              ELSE /\ CompilePanic("assert: verify")
                   /\ UNCHANGED cenv
    /\ last' = Step("compile_toplevel_end", NoStmt)
    /\ UNCHANGED <<ci, module, cursor, nextId, tycker_vars, input_vars>>

compile_Compound ==
    /\ CompileTop("Compound")
    /\ LET s == Head(cstack).s
       IN  /\ cenv' = push_empty(cenv)
           /\ CompileContinue(StmtTasks(s.s) \o <<PopTask(cenv)>>)
           /\ last' = Step("compile_Compound", s)
    /\ UNCHANGED <<ci, current_fn, module, cursor, nextId, lowered,
                   tycker_vars, input_vars>>

compile_Compound_pop ==
    /\ phase = "compile"
    /\ cstack # <<>>
    /\ Head(cstack).t = "pop"
    /\ cenv' = pop(cenv)
    /\ CompileContinue(<<>>)
    /\ last' = [Step("compile_Compound_pop", NoStmt) EXCEPT !.cenv = Head(cstack).entry]
    /\ UNCHANGED <<ci, current_fn, module, cursor, nextId, lowered,
                   tycker_vars, input_vars>>

compile_Assignment ==
    /\ CompileTop("Assignment")
    /\ LET s == Head(cstack).s
           lhs == compile_lvalue(cenv, s.lhs)
           rhs == compile_expr(cenv, nextId, s.rhs)
       IN  /\ IF lhs.st # "ok" THEN CompileAbort([lhs EXCEPT !.next = nextId])
              ELSE IF rhs.st # "ok" THEN CompileAbort(rhs)
              ELSE IF ~is_basic_value(rhs.val)
              THEN CompileAbort(ValPanic("unwrap: not a BasicValueEnum", rhs.code, rhs.next))
              ELSE /\ module' = Emit(module, cursor, rhs.code \o <<Store(lhs.val, rhs.val)>>)
                   /\ nextId' = rhs.next
                   /\ CompileContinue(<<>>)
           /\ last' = Step("compile_Assignment", s)
    /\ UNCHANGED <<ci, cenv, current_fn, cursor, lowered, tycker_vars, input_vars>>

compile_Var ==
    /\ CompileTop("Var")
    /\ LET s == Head(cstack).s
           var == PointerValue(nextId)
           alloca == <<Alloca(nextId, s.name)>>
           scope == put(cenv, s.name, var)
           init == compile_expr(scope, nextId + 1, s.initializer[1])
       IN  /\ cenv' = scope
           /\ IF s.initializer = None
              THEN /\ module' = Emit(module, cursor, alloca)
                   /\ nextId' = nextId + 1
                   /\ CompileContinue(<<>>)
              ELSE IF init.st # "ok" THEN CompileAbort(After(alloca, init))
              ELSE IF ~is_basic_value(init.val)
              THEN CompileAbort(ValPanic("unwrap: not a BasicValueEnum",
                                         alloca \o init.code, init.next))
              ELSE /\ module' = Emit(module, cursor,
                                     alloca \o init.code \o <<Store(var, init.val)>>)
                   /\ nextId' = init.next
                   /\ CompileContinue(<<>>)
           /\ last' = Step("compile_Var", s)
    /\ UNCHANGED <<ci, current_fn, cursor, lowered, tycker_vars, input_vars>>

compile_Return ==
    /\ CompileTop("Return")
    /\ LET s == Head(cstack).s
           v == compile_expr(cenv, nextId, s.expr)
       IN  /\ IF s.expr = UnitLiteral
              THEN /\ module' = Emit(module, cursor, <<Ret(None)>>)
                   /\ UNCHANGED nextId
                   /\ CompileContinue(<<>>)
              ELSE IF v.st # "ok" THEN CompileAbort(v)
              ELSE IF ~is_basic_value(v.val)
              THEN CompileAbort(ValPanic("unwrap: not a BasicValueEnum", v.code, v.next))
              ELSE /\ module' = Emit(module, cursor, v.code \o <<Ret(Some(v.val))>>)
                   /\ nextId' = v.next
                   /\ CompileContinue(<<>>)
           /\ last' = Step("compile_Return", s)
    /\ UNCHANGED <<ci, cenv, current_fn, cursor, lowered, tycker_vars, input_vars>>

\* self.compile_expr(cond)?.into_int_value()
compile_cond(tables, id, cond) ==
    LET c == compile_expr(tables, id, cond)
    IN  IF c.st = "ok" /\ ~is_int_value(c.val)
        THEN ValPanic("into_int_value", c.code, c.next)
        ELSE c

compile_If ==
    /\ CompileTop("If")
    /\ LET s == Head(cstack).s
           c == compile_cond(cenv, nextId, s.cond)
           func == current_fn[1]
           n == Len(module[func].blocks)
       IN  /\ IF c.st # "ok" THEN CompileAbort(c) /\ UNCHANGED cursor
              ELSE /\ module' = new_blocks(
                          Emit(module, cursor, c.code \o <<CondBr(c.val, n + 1, n + 2)>>),
                          func, 3)
                   /\ nextId' = c.next
                   /\ cursor' = Cursor(func, n + 1)
                   /\ CompileContinue(<<StmtTask(s.then_part),
                                        IfElseTask(s.else_part, n + 2, n + 3)>>)
           /\ last' = Step("compile_If", s)
    /\ UNCHANGED <<ci, cenv, current_fn, lowered, tycker_vars, input_vars>>

\* after the then part: branch to cont, position at else, lower the else part
compile_If_else ==
    /\ phase = "compile"
    /\ cstack # <<>>
    /\ Head(cstack).t = "if_else"
    /\ LET task == Head(cstack)
       IN  /\ module' = Emit(module, cursor, <<Br(task.cont_block)>>)
           /\ cursor' = Cursor(cursor.func, task.else_block)
           /\ CompileContinue(StmtTasks(task.else_part) \o <<IfEndTask(task.cont_block)>>)
    /\ last' = Step("compile_If_else", NoStmt)
    /\ UNCHANGED <<ci, cenv, current_fn, nextId, lowered, tycker_vars, input_vars>>

compile_If_end ==
    /\ phase = "compile"
    /\ cstack # <<>>
    /\ Head(cstack).t = "if_end"
    /\ LET task == Head(cstack)
       IN  /\ module' = Emit(module, cursor, <<Br(task.cont_block)>>)
           /\ cursor' = Cursor(cursor.func, task.cont_block)
           /\ CompileContinue(<<>>)
    /\ last' = Step("compile_If_end", NoStmt)
    /\ UNCHANGED <<ci, cenv, current_fn, nextId, lowered, tycker_vars, input_vars>>

compile_While ==
    /\ CompileTop("While")
    /\ LET s == Head(cstack).s
           c == compile_cond(cenv, nextId, s.cond)
           func == current_fn[1]
           n == Len(module[func].blocks)
       IN  /\ IF c.st # "ok" THEN CompileAbort(c) /\ UNCHANGED cursor
              ELSE /\ module' = new_blocks(
                          Emit(module, cursor, c.code \o <<CondBr(c.val, n + 1, n + 2)>>),
                          func, 2)
                   /\ nextId' = c.next
                   /\ cursor' = Cursor(func, n + 1)
                   /\ CompileContinue(<<StmtTask(s.body),
                                        WhileEndTask(s.cond, n + 1, n + 2)>>)
           /\ last' = Step("compile_While", s)
    /\ UNCHANGED <<ci, cenv, current_fn, lowered, tycker_vars, input_vars>>

\* after the body: the condition again, the back branch, position at cont
compile_While_end ==
    /\ phase = "compile"
    /\ cstack # <<>>
    /\ Head(cstack).t = "while_end"
    /\ LET task == Head(cstack)
           c == compile_cond(cenv, nextId, task.cond)
       IN  IF c.st # "ok" THEN CompileAbort(c) /\ UNCHANGED cursor
           ELSE /\ module' = Emit(module, cursor,
                      c.code \o <<CondBr(c.val, task.loop_block, task.cont_block)>>)
                /\ nextId' = c.next
                /\ cursor' = Cursor(cursor.func, task.cont_block)
                /\ CompileContinue(<<>>)
    /\ last' = Step("compile_While_end", NoStmt)
    /\ UNCHANGED <<ci, cenv, current_fn, lowered, tycker_vars, input_vars>>

compile_Expression ==
    /\ CompileTop("Expression")
    /\ LET s == Head(cstack).s
           v == compile_expr(cenv, nextId, s.expr)
       IN  /\ IF v.st # "ok" THEN CompileAbort(v)
              ELSE /\ module' = Emit(module, cursor, v.code)
                   /\ nextId' = v.next
                   /\ CompileContinue(<<>>)
           /\ last' = Step("compile_Expression", s)
    /\ UNCHANGED <<ci, cenv, current_fn, cursor, lowered, tycker_vars, input_vars>>

\* lib.rs run: compile_program returned Ok; the engine is created next
compile_program_ok ==
    /\ phase = "compile"
    /\ cstack = <<>>
    /\ ci > Len(program)
    /\ phase' = "jit"
    /\ last' = Step("compile_program_ok", NoStmt)
    /\ UNCHANGED <<result, tycker_vars, codegen_vars, input_vars>>

\* execution.rs get_main: engine.get_function("main").unwrap(); then fn_main.call()
jit_main ==
    /\ phase = "jit"
    /\ IF \E f \in 1..Len(module) : module[f].name = "main" /\ module[f].blocks # <<>>
       THEN phase' = "done" /\ result' = Finished
       ELSE phase' = "failed" /\ result' = Panicked("jit", "get_main: unwrap")
    /\ last' = Step("jit_main", NoStmt)
    /\ UNCHANGED <<tycker_vars, codegen_vars, input_vars>>

(***************************************************************************)
(* The programs checked: a callee g and a definition main, in either       *)
(* order.  g is an external variadic function (as println is) or a         *)
(* function with a body; main has no parameter and returns Unit, or has a  *)
(* parameter x and returns an integer.  The body of main is a Compound of  *)
(* at most MaxBody statements of StmtPool.                                 *)
(***************************************************************************)
MaxBody == 2

X == Identifier("x")
One == IntLiteral(1)
True == BoolLiteral(TRUE)
CallG(args) == Call(Identifier("g"), args)

StmtPool ==
    { Var("x", Auto, None),
      Var("x", Auto, Some(One)),
      Var("x", Int64, Some(True)),
      Var("x", Bool, Some(True)),
      Var("x", Int64, None),
      Var("x", Auto, Some(X)),
      Assignment(X, One),
      Assignment(One, True),
      Assignment(One, One),
      Return(UnitLiteral),
      Return(One),
      Expression(CallG(<<>>)),
      Expression(CallG(<<One, Identifier("y")>>)),
      Compound(<<Var("x", Auto, Some(True))>>),
      If(True, Return(UnitLiteral), None),
      If(X, Expression(CallG(<<>>)), Some(Return(UnitLiteral))),
      While(True, Var("x", Auto, Some(One))),
      While(One, Return(UnitLiteral)),
      Var("x", Auto, Some(CallG(<<>>))),
      Expression(CallG(<<One, X, CallG(<<One>>)>>)),
      Expression(Builtin("Add", <<X, CallG(<<One>>)>>)) }

Callees ==
    { Def("g", KalosSignature(<< <<"n", Int64>> >>, Unit, TRUE), None),
      Def("g", KalosSignature(<<>>, Unit, FALSE), Some(Compound(<<Return(UnitLiteral)>>))) }

MainSignatures ==
    { KalosSignature(<<>>, Unit, FALSE),
      KalosSignature(<< <<"x", Int64>> >>, Int64, FALSE) }

Main(sig, body) == Def("main", sig, Some(Compound(body)))

(***************************************************************************)
(* Init: Tycker::new() and LLVMCodeGen::new() (one global table each, no   *)
(* current function, an empty module), at the start of run.                *)
(***************************************************************************)
Constructed ==
    /\ result = Running
    /\ ti = 1
    /\ tstack = <<>>
    /\ env = <<EmptyTable>>
    /\ current_fn_return_type = None
    /\ ci = 1
    /\ cstack = <<>>
    /\ cenv = <<EmptyTable>>
    /\ current_fn = None
    /\ module = <<>>
    /\ cursor = NoCursor
    /\ nextId = 1
    /\ last = [act |-> "new", s |-> NoStmt, env |-> <<EmptyTable>>,
               cenv |-> <<EmptyTable>>, cursor |-> NoCursor, nextId |-> 1]
    /\ unresolved = {}
    /\ declared = {}
    /\ lowered = {}

Init ==
    /\ \E g \in Callees, sig \in MainSignatures, n \in 0..MaxBody :
          \E body \in [1..n -> StmtPool], g_first \in BOOLEAN :
             program = IF g_first THEN <<g, Main(sig, body)>> ELSE <<Main(sig, body), g>>
    /\ phase = "tyck"
    /\ Constructed
    /\ unify_in = None
    /\ call_in = None
    /\ builtin_in = None

Next ==
    \/ tyck_toplevel
    \/ tyck_toplevel_end
    \/ tyck_Compound
    \/ tyck_Compound_pop
    \/ tyck_Assignment
    \/ tyck_Var
    \/ tyck_Return
    \/ tyck_If
    \/ tyck_While
    \/ tyck_Expression
    \/ tyck_program_ok
    \/ compile_toplevel
    \/ compile_toplevel_end
    \/ compile_Compound
    \/ compile_Compound_pop
    \/ compile_Assignment
    \/ compile_Var
    \/ compile_Return
    \/ compile_If
    \/ compile_If_else
    \/ compile_If_end
    \/ compile_While
    \/ compile_While_end
    \/ compile_Expression
    \/ compile_program_ok
    \/ jit_main

Spec == Init /\ [][Next]_vars

(***************************************************************************)
(* KalosType::try_unify as a function of its two operands: every pair of   *)
(* types with at most MaxParams parameters in a signature.                 *)
(***************************************************************************)
MaxParams == 1

ParamPool == { <<"a", Int64>>, <<"b", Int64>>, <<"a", Bool>> }
ParamSeqs == UNION { [1..m -> ParamPool] : m \in 0..MaxParams }
Signatures ==
    { KalosSignature(ps, ret, variadic) :
        ps \in ParamSeqs, ret \in {Unit, Int64}, variadic \in BOOLEAN }
Types ==
    { Auto, Unit, Bool, Text, Int64, Integer(FALSE, 64), Integer(TRUE, 32) }
        \cup { Function(sig) : sig \in Signatures }

NoProgram ==
    /\ program = <<>>
    /\ Constructed

InitUnify ==
    /\ unify_in \in [expected : Types, actual : Types, out : {None}]
    /\ call_in = None
    /\ builtin_in = None
    /\ phase = "unify"
    /\ NoProgram

unify ==
    /\ phase = "unify"
    /\ unify_in.out = None
    /\ unify_in' = [unify_in EXCEPT
                       !.out = Some(try_unify(unify_in.expected, unify_in.actual))]
    /\ UNCHANGED <<program, phase, result, tycker_vars, codegen_vars, last, call_in, builtin_in>>

SpecUnify == InitUnify /\ [][unify]_vars

(***************************************************************************)
(* Tycker::tyck_expr on a call g(args) in a global scope that binds g:     *)
(* every binding of g of Types that is a function or a plain type, every   *)
(* argument list of at most MaxArgs expressions of ArgPool.                *)
(***************************************************************************)
MaxArgs == 2

ArgPool == { One, True, Identifier("y"), CallG(<<>>) }
CalleeTypes == { ty \in Types : ty.k \in {"Function", "Integer", "Bool"} }

CallEnv(callee) == << ("g" :> callee) >>

InitCall ==
    /\ \E callee \in CalleeTypes, n \in 0..MaxArgs :
          \E args \in [1..n -> ArgPool] :
             call_in = [callee |-> callee, args |-> args, out |-> None]
    /\ unify_in = None
    /\ builtin_in = None
    /\ phase = "call"
    /\ NoProgram

tyck_call ==
    /\ phase = "call"
    /\ call_in.out = None
    /\ call_in' = [call_in EXCEPT
                      !.out = Some(tyck_expr(CallEnv(call_in.callee), CallG(call_in.args)))]
    /\ UNCHANGED <<program, phase, result, tycker_vars, codegen_vars, last, unify_in, builtin_in>>

SpecCall == InitCall /\ [][tyck_call]_vars

(***************************************************************************)
(* Properties                                                              *)
(***************************************************************************)
\* tyck_program has returned Ok
TyckAccepted ==
    \/ phase \in {"compile", "jit", "done"}
    \/ phase = "failed" /\ result.stage # "tyck"

MainDef(p) == p[CHOOSE i \in DOMAIN p : p[i].name = "main"]
MainBody(p) == MainDef(p).body[1].s
MainSignature(p) == MainDef(p).signature

\* C1: while any function body is being checked, the global scope already
\* holds the function type of every top-level definition of the program
\* (so that a reference to a function defined later resolves).
C1_GlobalsBeforeBodies ==
    (phase = "tyck" /\ tstack # <<>>) =>
        \A i \in DOMAIN program : program[i].name \in DOMAIN env[1]

\* C2: once tyck_program has returned Ok, every identifier occurring in an
\* expression the checker accepted resolved in the environment at its point
\* of reference (also an argument beyond the parameters of a variadic callee).
C2_AcceptedIdentifiersResolve ==
    TyckAccepted => unresolved = {}

\* C3: once tyck_program has returned Ok, no Var statement has bound its
\* variable to the type Auto.
C3_NoAutoDeclared ==
    TyckAccepted => Auto \notin declared

\* C4: a program that tyck_program accepts is lowered by compile_program
\* without a KalosError and without a panic (verifier assertion included).
C4_AcceptedProgramsCompile ==
    TyckAccepted => ~(phase = "failed" /\ result.stage = "compile")

\* C5: once compile_toplevel has lowered a function body, every basic block
\* of the function holds exactly one terminator, as its last instruction.
C5_BlocksTerminated ==
    \A f \in lowered :
        \A b \in DOMAIN module[f].blocks : BlockTerminated(module[f].blocks[b])

IsLiteral(e) == e.k \in {"IntLiteral", "BoolLiteral"}

\* a program whose only fault is an assignment to a literal: main returns
\* Unit, and its body is one such assignment between literals, then a return
OnlyLvalueFault(p) ==
    /\ MainSignature(p) = KalosSignature(<<>>, Unit, FALSE)
    /\ LET body == MainBody(p)
       IN  /\ Len(body) = 2
           /\ body[1].k = "Assignment"
           /\ IsLiteral(body[1].lhs)
           /\ IsLiteral(body[1].rhs)
           /\ body[2] = Return(UnitLiteral)

\* C6: for a program whose only fault is an assignment whose LHS is not an
\* identifier, run ends with LvalueError, whatever the types of the LHS and
\* the RHS are.
C6_LvalueErrorReported ==
    (phase \in {"failed", "done"} /\ OnlyLvalueFault(program)) =>
        (result.st = "error" /\ result.err = LvalueError)

ArityLaw(signature, n) ==
    \/ n = Len(signature.params)
    \/ signature.variadic /\ n >= Len(signature.params)

C8_Unify ==
    (phase = "unify" /\ unify_in.out # None) =>
        LET expected == unify_in.expected
            actual == unify_in.actual
            out == unify_in.out[1]
        IN  IF expected = Auto \/ expected = actual
            THEN out = Ok(actual)
            ELSE out = Err(TypeError(expected, actual))

\* a function type was unified with an Auto on the actual side, and refused
C8_Witness ==
    /\ phase = "unify"
    /\ unify_in.out # None
    /\ unify_in.expected.k = "Function"
    /\ unify_in.actual = Auto
    /\ ~unify_in.out[1].ok

Names == {"x", "y", "g", "main", "n"}

Max(S) == CHOOSE i \in S : \A j \in S : j <= i

\* the binding of name in the innermost open scope that declares it
Innermost(tables, name) ==
    LET declaring == {i \in DOMAIN tables : name \in DOMAIN tables[i]}
    IN  IF declaring = {} THEN None ELSE Some(tables[Max(declaring)][name])

\* C9: at every point of the checker's walk a lookup yields the binding of
\* the innermost open scope declaring the name; when a compound statement
\* has been checked the scopes are those of its entry, so that every name
\* resolves as it did before the compound statement (or not at all).
C9_LexicalScoping ==
    phase = "tyck" =>
        /\ \A name \in Names : get(env, name) = Innermost(env, name)
        /\ last.act = "tyck_Compound_pop" =>
              /\ env = last.env
              /\ \A name \in Names : get(env, name) = get(last.env, name)

\* main(x: i64) { { var x = true; } x = 1; }: the assignment after the
\* compound statement has been accepted against the parameter x
C9_Witness ==
    /\ phase = "tyck"
    /\ program # <<>>
    /\ MainBody(program) = <<Compound(<<Var("x", Auto, Some(True))>>), Assignment(X, One)>>
    /\ last.act = "tyck_Assignment"
    /\ get(env, "x") = Some(Int64)

\* the Var statement just checked has bound its name to ty in the current scope
VarBound(ty) ==
    /\ phase = "tyck"
    /\ env = [last.env EXCEPT ![Len(last.env)] = TablePut(@, last.s.name, ty)]

\* C10: a Var statement with an initializer and annotation Auto binds the
\* name to the initializer's type; with an initializer and a concrete
\* annotation it binds the name to that type if the two are equal, and fails
\* with TypeError{expect: annotation, found: initializer type} without
\* binding otherwise; with a concrete annotation only it binds the annotation.
C10_VarBinding ==
    last.act = "tyck_Var" =>
        LET s == last.s
            init == tyck_expr(last.env, s.initializer[1])
        IN  IF s.initializer = None
            THEN s.ty # Auto => VarBound(s.ty)
            ELSE init.ok =>
                    IF s.ty = Auto \/ s.ty = init.ty
                    THEN VarBound(init.ty)
                    ELSE /\ phase = "failed"
                         /\ result = Failed("tyck", TypeError(s.ty, init.ty))
                         /\ env = last.env

\* var x: bool = true has been checked and x is bound to Bool
C10_Witness ==
    /\ last.act = "tyck_Var"
    /\ last.s = Var("x", Bool, Some(True))
    /\ phase = "tyck"
    /\ get(env, "x") = Some(Bool)

\* the definition whose body is being checked
Enclosing == program[ti - 1]

\* C11: every Return statement is checked against the declared return type of
\* the definition that encloses it: it is accepted iff the type of its
\* expression equals that return type, and fails with
\* TypeError{expect: declared return type, found: expression type} otherwise,
\* whatever definitions were checked before.
C11_ReturnAgainstEnclosing ==
    last.act = "tyck_Return" =>
        LET ret == Enclosing.signature.return_type
            ty == tyck_expr(last.env, last.s.expr)
        IN  ty.ok =>
                IF ty.ty = ret
                THEN phase = "tyck"
                ELSE /\ phase = "failed"
                     /\ result = Failed("tyck", TypeError(ret, ty.ty))

\* return 1 has been accepted in main, declared to return an integer and
\* checked after a g whose body returns unit
C11_Witness ==
    /\ last.act = "tyck_Return"
    /\ last.s = Return(One)
    /\ phase = "tyck"
    /\ Enclosing.name = "main"
    /\ Enclosing.signature.return_type = Int64
    /\ program[1].name = "g"
    /\ program[1].body # None

\* the statement checked first once the condition of s is accepted
FirstBranch(s) == IF s.k = "If" THEN s.then_part ELSE s.body

\* C12: an If or While whose condition checks to a type T other than Bool
\* fails with TypeError{expect: Bool, found: T} before any statement of a
\* branch or of the body is checked; a condition of type Bool causes no error
\* and the first branch (the body) is what is checked next.
C12_ConditionIsBool ==
    last.act \in {"tyck_If", "tyck_While"} =>
        LET ty == tyck_expr(last.env, last.s.cond)
        IN  ty.ok =>
                IF ty.ty = Bool
                THEN /\ phase = "tyck"
                     /\ Head(tstack) = StmtTask(FirstBranch(last.s))
                ELSE /\ phase = "failed"
                     /\ result = Failed("tyck", TypeError(Bool, ty.ty))
                     /\ tstack = <<>>
                     /\ env = last.env

\* while 1 return; has been rejected for its integer condition
C12_Witness ==
    /\ last.act = "tyck_While"
    /\ last.s = While(One, Return(UnitLiteral))
    /\ result = Failed("tyck", TypeError(Bool, Int64))

\* tyck_toplevel is not running: it has not been called yet or has returned
TyckReturned == tstack = <<>>

\* compile_toplevel is not running and did not unwind in a panic
CompileReturned == cstack = <<>> /\ ~(phase = "failed" /\ result.st = "panic")

\* C13: whenever tyck_toplevel or compile_toplevel has returned, with Ok or
\* with an error, the environment of that pass consists of exactly the one
\* global frame: every push was matched by a pop.
C13_OneGlobalFrame ==
    /\ TyckReturned => Len(env) = 1
    /\ CompileReturned => Len(cenv) = 1

\* the expressions tyck_stmt checks for the statement s itself
StmtExprs(s) ==
    CASE s.k = "Assignment" -> {s.lhs, s.rhs}
      [] s.k = "Var" -> {s.initializer[i] : i \in DOMAIN s.initializer}
      [] s.k \in {"Return", "Expression"} -> {s.expr}
      [] s.k \in {"If", "While"} -> {s.cond}
      [] OTHER -> {}

TyckStmtActs ==
    {"tyck_Assignment", "tyck_Var", "tyck_Return", "tyck_If", "tyck_While", "tyck_Expression"}

\* the lowerer has been created or has produced something
LoweringStarted ==
    phase \in {"compile", "jit", "done"} \/ ci > 1 \/ cstack # <<>> \/ module # <<>>

\* C14: run is fail-fast. Lowering starts only after tyck_program returned Ok
\* for the whole program; the JIT engine is created and main invoked only
\* after compile_program returned Ok, every definition with a body lowered
\* and verified; a statement whose expression does not check ends the run
\* with that error in the checking stage, nothing is checked or lowered
\* after an error, and a failed run takes no further step, so no IR module
\* reaches the JIT engine.
C14_FailFast ==
    /\ LoweringStarted =>
          /\ ti > Len(program) /\ tstack = <<>>
          /\ ~(phase = "failed" /\ result.stage = "tyck")
    /\ phase \in {"jit", "done"} =>
          /\ ci > Len(program) /\ cstack = <<>>
          /\ Len(module) = Len(program)
          /\ \A f \in 1..Len(program) :
                program[f].body # None => f \in lowered /\ verify(module[f])
    /\ (last.act \in TyckStmtActs
          /\ \E e \in StmtExprs(last.s) : ~tyck_expr(last.env, e).ok) =>
          phase = "failed" /\ result.st = "error" /\ result.stage = "tyck"
    /\ phase = "failed" =>
          /\ result.st \in {"error", "panic"}
          /\ tstack = <<>> /\ cstack = <<>>
          /\ result.stage = "tyck" => ci = 1 /\ module = <<>> /\ ti <= Len(program) + 1
          /\ ~ENABLED Next

\* the checker rejected the first definition, main, for an expression that
\* does not check: g, the lowerer and the JIT engine were never reached
C14_Witness ==
    /\ phase = "failed"
    /\ result.stage = "tyck"
    /\ last.act \in TyckStmtActs
    /\ \E e \in StmtExprs(last.s) : ~tyck_expr(last.env, e).ok
    /\ program[1].name = "main"
    /\ ti = 2
    /\ module = <<>>

RECURSIVE SubExprs(_)
\* expr and every expression inside it
SubExprs(expr) ==
    IF expr.k \in {"Call", "Builtin"}
    THEN {expr} \cup (IF expr.k = "Call" THEN SubExprs(expr.func) ELSE {})
                \cup UNION {SubExprs(expr.args[i]) : i \in DOMAIN expr.args}
    ELSE {expr}

\* the expressions whose value the statement s stores, returns, passes as an
\* argument or uses as an operand
Consumed(s) ==
    (CASE s.k = "Var" -> {s.initializer[i] : i \in DOMAIN s.initializer}
       [] s.k = "Assignment" -> {s.rhs}
       [] s.k = "Return" -> {s.expr}
       [] OTHER -> {})
    \cup UNION { UNION { {sub.args[i] : i \in DOMAIN sub.args}
                         : sub \in {x \in SubExprs(e) : x.k \in {"Call", "Builtin"}} }
                 : e \in StmtExprs(s) }

\* expr is a call of a function whose IR return type is void
VoidCall(tables, expr) ==
    /\ expr.k = "Call"
    /\ expr.func.k = "Identifier"
    /\ get(tables, expr.func.name) # None
    /\ is_function_value(get(tables, expr.func.name)[1])
    /\ get(tables, expr.func.name)[1].fty.ret = VoidType

Placeholder == ConstInt(64, 0)

\* the instruction at the end of the insertion block consumes the placeholder
PlaceholderConsumed ==
    LET block == module[cursor.func].blocks[cursor.blk]
        i == block[Len(block)]
    IN  /\ block # <<>>
        /\ \/ i.op = "store" /\ i.val = Placeholder
           \/ i.op = "call" /\ \E a \in DOMAIN i.args : i.args[a] = Placeholder
           \/ i.op = "bin" /\ Placeholder \in {i.lhs, i.rhs}
           \/ i.op = "ret" /\ i.val = Some(Placeholder)

CompileStmtActs ==
    {"compile_Assignment", "compile_Var", "compile_Return", "compile_Expression"}

\* C15: in a program the checker accepted, the value of a call of a
\* unit-returning function is never consumed: the integer-zero placeholder
\* lowered for it is not stored, passed as an argument, used as an operand
\* of a builtin or returned.
C15_PlaceholderNeverConsumed ==
    (/\ TyckAccepted
     /\ phase = "compile"
     /\ last.act \in CompileStmtActs
     /\ \E e \in Consumed(last.s) : VoidCall(last.cenv, e)) => ~PlaceholderConsumed

\* C16: the lowerer resolves identifiers to the declarations the checker
\* resolved them to; in var x = e of an accepted program the value stored
\* into the slot of x is the value of e lowered in the scope as it was before
\* x was declared.
C16_InitializerScope ==
    (/\ TyckAccepted
     /\ phase = "compile"
     /\ last.act = "compile_Var"
     /\ last.s.initializer # None) =>
        LET before == compile_expr(last.cenv, last.nextId + 1, last.s.initializer[1])
            block == module[cursor.func].blocks[cursor.blk]
            store == block[Len(block)]
        IN  /\ before.st = "ok"
            /\ store.op = "store"
            /\ store.val = before.val

\* C17: in a program the checker accepted, the target of every assignment
\* whose left-hand side is an identifier resolves in the lowerer to the
\* pointer of a stack slot, a parameter's name included, and the assignment
\* is lowered to a store through that pointer.
C17_AssignmentTargetIsSlot ==
    (/\ TyckAccepted
     /\ last.act = "compile_Assignment"
     /\ last.s.lhs.k = "Identifier") =>
        LET target == get(last.cenv, last.s.lhs.name)
            block == module[cursor.func].blocks[cursor.blk]
        IN  /\ target # None
            /\ is_pointer_value(target[1])
            /\ phase = "compile"
            /\ block[Len(block)] = [op |-> "store", ptr |-> target[1],
                                    val |-> block[Len(block)].val]

\* C18: lowering a Var declaration emits its alloca in the entry block of the
\* enclosing function, wherever the declaration sits, with the IR type of
\* the variable's type (i1 for Bool, i64 for a 64-bit Integer), binds the
\* name to that pointer in the current scope and stores the initializer's
\* value if there is one.
C18_VarSlot ==
    (/\ TyckAccepted
     /\ phase = "compile"
     /\ last.act = "compile_Var") =>
        LET s == last.s
            var == PointerValue(last.nextId)
            entry == module[cursor.func].blocks[1]
            block == module[cursor.func].blocks[cursor.blk]
        IN  /\ \E i \in DOMAIN entry :
                  /\ entry[i].op = "alloca"
                  /\ entry[i].id = last.nextId
                  /\ s.ty # Auto => entry[i].ty = compile_type(s.ty).ty
            /\ get(cenv, s.name) = Some(var)
            /\ s.initializer # None =>
                  /\ block[Len(block)].op = "store"
                  /\ block[Len(block)].ptr = var

\* C19: the checker's current-function return type is None whenever
\* tyck_toplevel is not running a body: before the first definition, between
\* definitions, after an external definition and after tyck_program.
C19_ReturnTypeCleared ==
    TyckReturned => current_fn_return_type = None

RECURSIVE SourceOrder(_, _)
RECURSIVE SourceOrderArgs(_, _, _)

\* the instructions an expression asks for, in the order of the source:
\* a load for an identifier bound to a slot, a call after its callee and its
\* arguments from left to right, a builtin after its first and second operand
SourceOrder(tables, expr) ==
    CASE expr.k = "Identifier" ->
            LET var == get(tables, expr.name)
            IN  IF var # None /\ is_pointer_value(var[1])
                THEN <<[op |-> "load", ptr |-> var[1]]>>
                ELSE <<>>
      [] expr.k = "Call" ->
            SourceOrder(tables, expr.func) \o SourceOrderArgs(tables, expr.args, 1)
                \o <<[op |-> "call", n |-> Len(expr.args)]>>
      [] expr.k = "Builtin" ->
            SourceOrder(tables, expr.args[1]) \o SourceOrder(tables, expr.args[2])
                \o <<[op |-> "bin", inst |-> build_int(expr.builtin)]>>
      [] OTHER -> <<>>

SourceOrderArgs(tables, args, i) ==
    IF i > Len(args) THEN <<>>
    ELSE SourceOrder(tables, args[i]) \o SourceOrderArgs(tables, args, i + 1)

\* what an emitted instruction is, without the identities of its values
Tag(i) ==
    CASE i.op = "load" -> [op |-> "load", ptr |-> i.ptr]
      [] i.op = "call" -> [op |-> "call", n |-> Len(i.args)]
      [] i.op = "bin" -> [op |-> "bin", inst |-> i.inst]

\* the loads, calls and builtins emitted by the last step, in block order
EmittedByLast ==
    LET block == module[cursor.func].blocks[cursor.blk]
        new == SelectSeq(block, LAMBDA i : i.op \in {"load", "call", "bin"}
                                           /\ i.id >= last.nextId)
    IN  [j \in 1..Len(new) |-> Tag(new[j])]

\* the expression the statement s is lowered from
Lowered(s) == IF s.k = "Assignment" THEN s.rhs ELSE s.expr

\* C20: emission order is source order. The statements of a compound are
\* lowered in sequence; the instructions of a call follow those of its
\* callee and of its arguments from left to right, and those of a builtin
\* follow those of its first and then its second operand.
C20_EmissionOrder ==
    /\ (phase = "compile" /\ last.act = "compile_Compound") =>
          /\ Len(cstack) > Len(last.s.s)
          /\ \A i \in 1..Len(last.s.s) : cstack[i] = StmtTask(last.s.s[i])
          /\ cstack[Len(last.s.s) + 1].t = "pop"
    /\ (/\ phase = "compile"
        /\ last.act \in {"compile_Expression", "compile_Assignment", "compile_Return"}
        /\ Lowered(last.s) # UnitLiteral) =>
          EmittedByLast = SourceOrder(last.cenv, Lowered(last.s))

\* g(1, x, g(1)) has been lowered with x in a stack slot: the load of x, the
\* inner call and the outer call were emitted
C20_Witness ==
    /\ phase = "compile"
    /\ last.act = "compile_Expression"
    /\ last.s = Expression(CallG(<<One, X, CallG(<<One>>)>>))
    /\ Len(EmittedByLast) = 3
    /\ EmittedByLast[1].op = "load"

(***************************************************************************)
(* LLVMCodeGen::compile_builtin on x <op> y with x and y bound to the       *)
(* integer parameters of a function, and the instruction it builds         *)
(* executed on every pair of operand values.  TLC's integers are 32-bit,   *)
(* so the two's complement words the instructions work on are scaled from  *)
(* 64 to WordBits bits; a value is the unsigned reading of its bits.       *)
(***************************************************************************)
WordBits == 4

Modulus == 2 ^ WordBits
Word == 0..(Modulus - 1)
MinSigned == -(Modulus \div 2)
Signed == MinSigned..(-MinSigned - 1)

ToSigned(u) == IF u >= Modulus \div 2 THEN u - Modulus ELSE u
FromSigned(n) == n % Modulus

Abs(n) == IF n < 0 THEN -n ELSE n

\* LLVM sdiv rounds the quotient toward zero; srem is the remainder of that
TruncDiv(a, b) ==
    LET q == Abs(a) \div Abs(b)
    IN  IF (a < 0) # (b < 0) THEN -q ELSE q
TruncRem(a, b) == a - b * TruncDiv(a, b)

\* the results an instruction can produce on the words a and b; division by
\* zero and the overflowing MinSigned / -1 are undefined behaviour
execute(inst, a, b) ==
    LET sa == ToSigned(a)
        sb == ToSigned(b)
        bit(p) == IF p THEN {1} ELSE {0}
    IN  CASE inst = "add" -> {(a + b) % Modulus}
          [] inst = "sub" -> {(a - b) % Modulus}
          [] inst = "mul" -> {(a * b) % Modulus}
          [] inst = "sdiv" ->
                IF b = 0 \/ (sa = MinSigned /\ sb = -1) THEN Word
                ELSE {FromSigned(TruncDiv(sa, sb))}
          [] inst = "srem" ->
                IF b = 0 \/ (sa = MinSigned /\ sb = -1) THEN Word
                ELSE {FromSigned(TruncRem(sa, sb))}
          [] inst = "udiv" -> IF b = 0 THEN Word ELSE {a \div b}
          [] inst = "urem" -> IF b = 0 THEN Word ELSE {a % b}
          [] inst = "icmp slt" -> bit(sa < sb)
          [] inst = "icmp sle" -> bit(sa <= sb)
          [] inst = "icmp sge" -> bit(sa >= sb)
          [] inst = "icmp sgt" -> bit(sa > sb)
          [] inst = "icmp ult" -> bit(a < b)
          [] inst = "icmp ule" -> bit(a <= b)
          [] inst = "icmp uge" -> bit(a >= b)
          [] inst = "icmp ugt" -> bit(a > b)
          [] inst = "icmp eq" -> bit(a = b)
          [] inst = "icmp ne" -> bit(a # b)

\* the scope of a body whose function has the integer parameters x and y
BuiltinEnv == << EmptyTable, ParamTable(1, KalosSignature(<< <<"x", Int64>>, <<"y", Int64>> >>,
                                                          Int64, FALSE),
                                        FnType(<<IntType(64), IntType(64)>>,
                                               IntType(64), FALSE)) >>

\* the word an operand of an instruction holds when the parameters hold args
OperandWord(v, args) ==
    CASE v.vk = "param" -> FromSigned(args[v.idx])
      [] v.vk = "const" -> FromSigned(v.n)

InitBuiltin ==
    /\ \E builtin \in ArithmeticBuiltins \cup ComparisonBuiltins, x \in Signed, y \in Signed :
          builtin_in = [builtin |-> builtin, x |-> x, y |-> y, out |-> None]
    /\ unify_in = None
    /\ call_in = None
    /\ phase = "builtin"
    /\ NoProgram

\* compile_builtin, then one execution of what it built
run_builtin ==
    /\ phase = "builtin"
    /\ builtin_in.out = None
    /\ LET r == compile_builtin(BuiltinEnv, 1, builtin_in.builtin, <<X, Identifier("y")>>)
           args == <<builtin_in.x, builtin_in.y>>
       IN  IF r.st # "ok"
           THEN builtin_in' = [builtin_in EXCEPT !.out = Some([st |-> r.st, code |-> r.code])]
           ELSE \E w \in execute(r.code[1].inst, OperandWord(r.code[1].lhs, args),
                                 OperandWord(r.code[1].rhs, args)) :
                   builtin_in' = [builtin_in EXCEPT
                                     !.out = Some([st |-> "ok", code |-> r.code,
                                                   val |-> r.val, word |-> w])]
    /\ UNCHANGED <<program, phase, result, tycker_vars, codegen_vars, last,
                   unify_in, call_in>>

SpecBuiltin == InitBuiltin /\ [][run_builtin]_vars

\* n, read as a signed word after wrapping modulo 2^WordBits
Wraps(w, n) == ToSigned(w) \in Signed /\ (ToSigned(w) - n) % Modulus = 0

\* q is x / y rounded toward zero
IsTruncQuotient(q, x, y) ==
    LET r == x - q * y
    IN  Abs(r) < Abs(y) /\ (r = 0 \/ (r < 0) = (x < 0))

\* r is the remainder of x by y with the sign of the dividend x
IsTruncRemainder(r, x, y) ==
    /\ Abs(r) < Abs(y)
    /\ r = 0 \/ (r < 0) = (x < 0)
    /\ (x - r) % Abs(y) = 0

DivisionDefined(x, y) == y # 0 /\ ~(x = MinSigned /\ y = -1)

\* C21: compile_builtin builds for each operator the matching signed
\* instruction on its two 64-bit operands: Add, Subtract, Multiply give add,
\* sub, mul, whose result is the sum, difference, product wrapped to the
\* word; Divide gives sdiv and Modulo srem, the quotient rounded toward zero
\* and the remainder with the sign of the dividend; the six comparisons
\* give icmp with SLT, SLE, EQ, SGE, SGT, NE and a one-bit result that is 1
\* exactly when the signed comparison holds.
C21_BuiltinInstructions ==
    (/\ phase = "builtin"
     /\ builtin_in.out # None
     /\ builtin_in.builtin # "Power") =>
        LET builtin == builtin_in.builtin
            x == builtin_in.x
            y == builtin_in.y
            out == builtin_in.out[1]
            i == out.code[1]
            s == ToSigned(out.word)
            bit(p) == out.word = (IF p THEN 1 ELSE 0)
        IN  /\ out.st = "ok"
            /\ Len(out.code) = 1
            /\ i.op = "bin"
            /\ ValueType(i.lhs) = IntType(64) /\ ValueType(i.rhs) = IntType(64)
            /\ OperandWord(i.lhs, <<x, y>>) = FromSigned(x)
            /\ OperandWord(i.rhs, <<x, y>>) = FromSigned(y)
            /\ out.val = Reg(IF builtin \in ComparisonBuiltins THEN 1 ELSE 64, i.id)
            /\ CASE builtin = "Add" -> i.inst = "add" /\ Wraps(out.word, x + y)
                 [] builtin = "Subtract" -> i.inst = "sub" /\ Wraps(out.word, x - y)
                 [] builtin = "Multiply" -> i.inst = "mul" /\ Wraps(out.word, x * y)
                 [] builtin = "Divide" ->
                       /\ i.inst = "sdiv"
                       /\ DivisionDefined(x, y) => IsTruncQuotient(s, x, y)
                 [] builtin = "Modulo" ->
                       /\ i.inst = "srem"
                       /\ DivisionDefined(x, y) => IsTruncRemainder(s, x, y)
                 [] builtin = "LessThan" -> i.inst = "icmp slt" /\ bit(x < y)
                 [] builtin = "LessEqual" -> i.inst = "icmp sle" /\ bit(x <= y)
                 [] builtin = "Equal" -> i.inst = "icmp eq" /\ bit(x = y)
                 [] builtin = "GreaterEqual" -> i.inst = "icmp sge" /\ bit(x >= y)
                 [] builtin = "GreaterThan" -> i.inst = "icmp sgt" /\ bit(x > y)
                 [] builtin = "NotEqual" -> i.inst = "icmp ne" /\ bit(x # y)

\* x + y has been lowered and executed on operands whose sum does not fit
\* the word: the result is the sum wrapped to a negative value
C21_Witness ==
    /\ phase = "builtin"
    /\ builtin_in.builtin = "Add"
    /\ builtin_in.out # None
    /\ builtin_in.x > 0 /\ builtin_in.y > 0
    /\ builtin_in.x + builtin_in.y \notin Signed
    /\ ToSigned(builtin_in.out[1].word) = builtin_in.x + builtin_in.y - Modulus

\* -7 / 2 has been executed and gave -3, -7 % 2 gave -1
C21_WitnessDivide ==
    /\ phase = "builtin"
    /\ builtin_in.builtin \in {"Divide", "Modulo"}
    /\ builtin_in.x = -7 /\ builtin_in.y = 2
    /\ builtin_in.out # None
    /\ ToSigned(builtin_in.out[1].word) = (IF builtin_in.builtin = "Divide" THEN -3 ELSE -1)

====
